---- MODULE Spec2Model ----
(***************************************************************************)
(* The OAuth2 credential lifecycle of TextBrief.                           *)
(*                                                                         *)
(* Two authenticator shapes live in the repository:                        *)
(*   - tools/gmail/gmail_authenticator.py: GmailAuthenticator with         *)
(*     authenticate_user(user_email, scopes, token_storage_path) and       *)
(*     get_service_for_user(creds); the credential is a local variable.    *)
(*   - newsletter_ai/tools/gmail/gmail_authenticator.py: GmailAuthenticator*)
(*     with a fixed token_path, authenticate(scopes) and get_service();    *)
(*     the credential is kept in self.creds between calls.                 *)
(*                                                                         *)
(* The token files, the clock, the identity provider, the browser user and *)
(* the log file are the environment: their answers are drawn with \E.      *)
(* Time is counted in ticks of half a second.                              *)
(***************************************************************************)
EXTENDS Integers, FiniteSets, Sequences, TLC

VARIABLES
    files,      \* token file content, per path
    now,        \* the clock (ticks)
    pending,    \* the call blocked in flow.run_local_server, or NoCall
    last,       \* the call that completed last
    selfCreds,  \* self.creds of the authenticator instance
    svc,        \* what the last service creation did
    session,    \* app/main.py: the run of main() and run_user_session
    client,     \* the last GmailClient operation
    userToken,  \* the token path run_user_session derived, and for whom
    mailbox,    \* the messages the provider holds
    ledger,     \* the processed_emails table
    outbox,     \* how many digests were sent, per source message
    run         \* newsletter_ai/main.py: the run of the pipeline

vars == <<files, now, pending, last, selfCreds, svc,
          session, client, userToken, mailbox, ledger, outbox, run>>

(* the state of the driver, the resource clients and the content pipeline:   *)
(* the authenticators do not touch it                                        *)
rest == <<session, client, userToken, mailbox, ledger, outbox, run>>

---------------------------------------------------------------------------
(* Bounds of the model *)

MaxTime == 1          \* the clock stops here

(* Library constants, scaled to ticks *)

TicksPerSecond == 2   \* the stored expiry is parsed to whole seconds
REFRESH_THRESHOLD == 1 \* Credentials.expired: the clock skew allowed for

---------------------------------------------------------------------------
(* Values *)

None == "None"        \* Python's None
Missing == "Missing"  \* a key the JSON document does not have
NoExpiry == -1        \* no "expiry" key in the JSON document

Users == {"alice@example.com", "bob@example.com"}
Paths == {"tokens/alice_at_example.com.json", "tokens/bob_at_example.com.json"}
ScopeSets == {{"read"}, {"read", "send"}}

(* what the provider answers: a new access token, its lifetime (a second or  *)
(* more beyond the skew the library allows for), and a new refresh token or  *)
(* none                                                                      *)
NewAccessTokens == {"at2"}
NewRefreshTokens == {"rt2", None}
Lifetimes == {REFRESH_THRESHOLD + TicksPerSecond}

(* run_user_session: the token path of a user *)
TokenPath(user) ==
    IF user = "alice@example.com" THEN "tokens/alice_at_example.com.json"
    ELSE "tokens/bob_at_example.com.json"

(* creds = None *)
NoCreds == [some |-> FALSE, token |-> None, refresh_token |-> None,
            expiry |-> 0, scopes |-> {}]

Absent == [kind |-> "absent", token |-> None, refresh_token |-> Missing,
           expiry |-> NoExpiry, scopes |-> {}]

(* a file that exists and does not parse: garbage, empty or cut short *)
Corrupt == [kind |-> "corrupt", token |-> None, refresh_token |-> Missing,
            expiry |-> NoExpiry, scopes |-> {}]

JsonFile(token, refresh_token, expiry, scopes) ==
    [kind |-> "json", token |-> token, refresh_token |-> refresh_token,
     expiry |-> expiry, scopes |-> scopes]

(* The token files a run may start from. *)
InitFiles ==
    { Absent, Corrupt,
      JsonFile("at1", "rt1", 9, {"read"}),              \* valid
      JsonFile("at1", "rt1", 3, {"read", "send"}),      \* valid until tick 1
      JsonFile("at1", "rt1", 1, {"read"}),              \* expired
      JsonFile("at1", None, 1, {"read"}),               \* expired, refresh_token null
      JsonFile("at1", Missing, 9, {"read"}),            \* no refresh_token key
      JsonFile("at1", "rt1", NoExpiry, {"read"}),       \* no expiry key
      JsonFile(None, "rt1", 9, {"read"}) }              \* no token

(* The second user's file starts from fewer cases. *)
InitFilesOther ==
    { Absent,
      JsonFile("at1", "rt1", 9, {"read"}),
      JsonFile("at1", "rt1", 1, {"read"}) }

---------------------------------------------------------------------------
(* google.oauth2.credentials.Credentials, as the authenticators use it *)

(* os.path.exists(token_storage_path) *)
Exists(f) == f.kind # "absent"

(* Credentials.from_authorized_user_file raises: the content is no JSON, or  *)
(* the document lacks the refresh_token key.                                 *)
LoadRaises(f) == f.kind = "corrupt" \/ f.refresh_token = Missing

(* the expiry string parsed: fractions of a second are dropped *)
ParseExpiry(e) == e - (e % TicksPerSecond)

(* Credentials.from_authorized_user_file(path, scopes): the scopes argument  *)
(* replaces the stored scopes; a document without expiry is expired on load. *)
Load(f, scopes, t) ==
    [some |-> TRUE, token |-> f.token, refresh_token |-> f.refresh_token,
     expiry |-> IF f.expiry = NoExpiry THEN t - REFRESH_THRESHOLD
                ELSE ParseExpiry(f.expiry),
     scopes |-> scopes]

(* creds.expired *)
Expired(c, t) == t >= c.expiry - REFRESH_THRESHOLD

(* creds.valid *)
Valid(c, t) == c.token # None /\ ~Expired(c, t)

(* ToJson, had the refresh token been stripped from the document *)
ToJsonStripped(c) == JsonFile(c.token, Missing, c.expiry, c.scopes)

(* creds.to_json(): entries that are None are left out *)
ToJson(c) ==
    JsonFile(c.token,
             IF c.refresh_token = None THEN Missing ELSE c.refresh_token,
             c.expiry, c.scopes)


(* creds.refresh(Request()) succeeding: the token and the expiry are         *)
(* replaced; the refresh token is kept unless the response carries one.      *)
Refreshed(c, token, lifetime, rt, t) ==
    [c EXCEPT !.token = token,
              !.expiry = t + lifetime,
              !.refresh_token = IF rt = None THEN @ ELSE rt]

(* flow.run_local_server(port=0) succeeding: a credential for the scopes the *)
(* flow was made with; the response may carry no refresh token.              *)
Issued(scopes, token, lifetime, rt, t) ==
    [some |-> TRUE, token |-> token, refresh_token |-> rt,
     expiry |-> t + lifetime, scopes |-> scopes]

---------------------------------------------------------------------------
(* A call of authenticate_user / authenticate, as the callers observe it *)

NoCall ==
    [kind |-> "none", user |-> "", scopes |-> {}, path |-> "", at |-> 0,
     pre |-> Absent, creds |-> NoCreds, branch |-> "none",
     outcome |-> "none", cause |-> "none", result |-> NoCreds,
     refreshCalls |-> 0, consentCalls |-> 0, writes |-> 0,
     refreshFailed |-> FALSE, issuedRt |-> None, again |-> FALSE]

NewCall(kind, user, scopes, path) ==
    [NoCall EXCEPT !.kind = kind, !.user = user, !.scopes = scopes,
                   !.path = path, !.at = now, !.pre = files[path],
                   !.again = /\ last.kind = kind /\ last.path = path
                             /\ last.scopes = scopes
                             /\ last.branch = "cached"
                             /\ last.outcome = "returned"]

NoService == [op |-> "none", creds |-> NoCreds, credsValid |-> FALSE,
              outcome |-> "none", cause |-> "none", authOutcome |-> "none"]

(* main() has not run *)
NoSession ==
    [pc |-> "idle", user |-> "", runs |-> 0, stage |-> "none",
     raised |-> "none",
     sessionLogged |-> FALSE, sessionPrinted |-> FALSE,
     sessionReturned |-> FALSE, mainLogged |-> FALSE, mainPrinted |-> FALSE,
     escaped |-> "none"]

(* no GmailClient operation was called *)
NoOperation ==
    [op |-> "none", user_id |-> "", arg |-> "", api |-> "none",
     outcome |-> "none", cause |-> "none", result |-> {}]

(* the pipeline is not running *)
NoRun == [pc |-> "idle", emails |-> <<>>, runs |-> 0]

Messages == {"m1", "m2"}

(* before the driver, a resource client or the pipeline has run *)
RestInit ==
    /\ session = NoSession
    /\ client = NoOperation
    /\ userToken = [email |-> <<>>, path |-> <<>>]
    /\ mailbox = {}
    /\ ledger = {}
    /\ outbox = [m \in Messages |-> 0]
    /\ run = NoRun

Init ==
    /\ files \in { f \in [Paths -> InitFiles] :
                      f[TokenPath("bob@example.com")] \in InitFilesOther }
    /\ now = 0
    /\ pending = NoCall
    /\ last = NoCall
    /\ selfCreds = NoCreds
    /\ svc = NoService
    /\ RestInit

---------------------------------------------------------------------------
(* The steps of authenticate_user; keep = TRUE when the credential variable  *)
(* is self.creds (authenticate) and not a local (authenticate_user).         *)

(* the call ends: return, or an exception leaves the method *)
Complete(call, keep) ==
    /\ last' = [call EXCEPT !.creds = NoCreds]
    /\ pending' = NoCall
    /\ selfCreds' = IF keep THEN call.creds ELSE selfCreds

(* except Exception as e: logger.error(...); raise AuthenticationError from e *)
(* AppLogger.log re-raises when the log file cannot be written.               *)
Raise(call, cause, keep) ==
    \E errLogOk \in BOOLEAN :
        Complete([call EXCEPT !.outcome = IF errLogOk THEN "AuthenticationError"
                                          ELSE "OSError",
                              !.cause = cause,
                              !.result = NoCreds], keep)

(* Persist, had the save been left out *)
PersistForgotten(call, creds, keep) ==
    /\ UNCHANGED files
    /\ Complete([call EXCEPT !.creds = creds,
                             !.outcome = "returned",
                             !.result = creds], keep)

(* Persist, had it written one token file shared by every user *)
PersistShared(call, creds, keep) ==
    /\ files' = [files EXCEPT !["tokens/alice_at_example.com.json"] = ToJson(creds)]
    /\ Complete([call EXCEPT !.creds = creds,
                             !.writes = @ + 1,
                             !.outcome = "returned",
                             !.result = creds], keep)

(* with open(token_storage_path, "w") as token_file:                         *)
(*     token_file.write(creds.to_json())                                     *)
(* return creds                                                              *)
Persist(call, creds, keep) ==
    \E w \in {"ok", "open_fails", "write_fails"} :
        CASE w = "ok" ->
               /\ files' = [files EXCEPT ![call.path] = ToJson(creds)]
               /\ Complete([call EXCEPT !.creds = creds,
                                        !.writes = @ + 1,
                                        !.outcome = "returned",
                                        !.result = creds], keep)
          [] w = "open_fails" ->
               /\ UNCHANGED files
               /\ Raise([call EXCEPT !.creds = creds], "open", keep)
          [] w = "write_fails" ->
               /\ files' = [files EXCEPT ![call.path] = Corrupt]
               /\ Raise([call EXCEPT !.creds = creds, !.writes = @ + 1],
                        "write", keep)

(* if creds and creds.expired and creds.refresh_token: *)
CanRefresh(c, t) == c.some /\ Expired(c, t) /\ c.refresh_token # None

(* NeedsAuth, had the test been left out *)
NeedsAuthAlways(c, t) == TRUE

(* NeedsAuth, had "not creds" been left out of the test *)
NeedsAuthWhenLoaded(c, t) == c.some /\ ~Valid(c, t)

(* if not creds or not creds.valid: *)
NeedsAuth(c, t) == ~c.some \/ ~Valid(c, t)

(* flow = InstalledAppFlow.from_client_secrets_file(...);                    *)
(* flow.authorization_url(...); creds = flow.run_local_server(port=0)        *)
(* The call blocks in run_local_server until the browser user answers.       *)
ConsentBranch(call, creds, keep) ==
    \E secretsOk \in BOOLEAN :
        LET c1 == [call EXCEPT !.branch = "consent", !.creds = creds,
                               !.consentCalls = @ + 1] IN
        IF ~secretsOk
        THEN /\ UNCHANGED files
             /\ Raise(c1, "secrets", keep)
        ELSE /\ pending' = [c1 EXCEPT !.outcome = "blocked"]
             /\ UNCHANGED <<files, last, selfCreds>>

(* RefreshBranch, had a refresh error led on to the consent flow *)
RefreshBranchFallsThrough(call, creds, keep) ==
    \E ok \in BOOLEAN :
        LET c1 == [call EXCEPT !.branch = "refresh", !.refreshCalls = @ + 1] IN
        IF ~ok
        THEN ConsentBranch([c1 EXCEPT !.refreshFailed = TRUE], creds, keep)
        ELSE \E token \in NewAccessTokens, lifetime \in Lifetimes,
                rt \in NewRefreshTokens :
                LET c2 == Refreshed(creds, token, lifetime, rt, now) IN
                Persist([c1 EXCEPT !.creds = c2, !.issuedRt = rt], c2, keep)

(* creds.refresh(Request()); logger.info(...); then the save *)
RefreshBranch(call, creds, keep) ==
    \E ok \in BOOLEAN :
        LET c1 == [call EXCEPT !.branch = "refresh", !.refreshCalls = @ + 1] IN
        IF ~ok
        THEN /\ UNCHANGED files
             /\ Raise([c1 EXCEPT !.creds = creds, !.refreshFailed = TRUE],
                      "refresh", keep)
        ELSE \E token \in NewAccessTokens, lifetime \in Lifetimes,
                rt \in NewRefreshTokens, logOk \in BOOLEAN :
                LET c2 == Refreshed(creds, token, lifetime, rt, now)
                    c3 == [c1 EXCEPT !.creds = c2, !.issuedRt = rt]
                IN  IF ~logOk
                    THEN /\ UNCHANGED files
                         /\ Raise(c3, "log", keep)
                    ELSE Persist(c3, c2, keep)

(* ReturnCached, had the save been placed after the if block *)
ReturnCachedSaves(call, creds, keep) ==
    Persist([call EXCEPT !.branch = "cached"], creds, keep)

(* the stored credential is valid: the if block is skipped; return creds *)
ReturnCached(call, creds, keep) ==
    /\ UNCHANGED files
    /\ Complete([call EXCEPT !.branch = "cached",
                             !.outcome = "returned",
                             !.result = creds], keep)

(* the try block from its first line *)
AuthBody(call, creds0, keep) ==
    LET f == files[call.path] IN
    IF Exists(f) /\ LoadRaises(f)
    THEN /\ UNCHANGED files
         /\ Raise([call EXCEPT !.creds = creds0], "load", keep)
    ELSE \E loadLogOk \in (IF Exists(f) THEN BOOLEAN ELSE {TRUE}) :
            LET creds == IF Exists(f) THEN Load(f, call.scopes, now) ELSE creds0
                c1 == [call EXCEPT !.creds = creds]
            IN  IF ~loadLogOk
                THEN /\ UNCHANGED files
                     /\ Raise(c1, "log", keep)
                ELSE IF ~NeedsAuth(creds, now)
                THEN ReturnCached(c1, creds, keep)
                ELSE IF CanRefresh(creds, now)
                THEN RefreshBranch(c1, creds, keep)
                ELSE ConsentBranch(c1, creds, keep)

---------------------------------------------------------------------------
(* Actions *)

(* tools/gmail: GmailAuthenticator.authenticate_user *)
AuthenticateUser(user, scopes) ==
    /\ pending = NoCall
    /\ AuthBody(NewCall("authenticate_user", user, scopes, TokenPath(user)),
                NoCreds, FALSE)
    /\ svc' = NoService
    /\ UNCHANGED <<now, rest>>

(* run_local_server returns or raises; the call goes on to its end *)
ConsentReturns ==
    /\ pending # NoCall
    /\ LET keep == pending.kind = "authenticate" IN
       \E ok \in BOOLEAN :
          IF ~ok
          THEN /\ UNCHANGED files
               /\ Raise(pending, "consent", keep)
          ELSE \E token \in NewAccessTokens, lifetime \in Lifetimes,
                  rt \in NewRefreshTokens, logOk \in BOOLEAN :
                  LET c2 == Issued(pending.scopes, token, lifetime, rt, now)
                      c3 == [pending EXCEPT !.creds = c2, !.issuedRt = rt]
                  IN  IF ~logOk
                      THEN /\ UNCHANGED files
                           /\ Raise(c3, "log", keep)
                      ELSE Persist(c3, c2, keep)
    /\ UNCHANGED <<now, svc, rest>>

(* get_service_for_user: service = build(...); logger.info(...); return.     *)
(* The except block calls self.logger.error(message, exc_info=True), and     *)
(* AppLogger.error(self, message) takes no exc_info: the call raises         *)
(* TypeError before raise AuthenticationError is reached.                    *)
ServiceForUser(creds, buildOk, logOk) ==
    [op |-> "get_service_for_user", creds |-> creds,
     credsValid |-> Valid(creds, now),
     outcome |-> IF buildOk /\ logOk THEN "returned" ELSE "TypeError",
     cause |-> IF ~buildOk THEN "build"
               ELSE IF ~logOk THEN "log" ELSE "none",
     authOutcome |-> last.outcome]

(* tools/gmail: GmailAuthenticator.get_service_for_user(creds), called with  *)
(* what authenticate_user returned                                           *)
GetServiceForUser ==
    /\ pending = NoCall
    /\ last.outcome = "returned"
    /\ \E buildOk \in BOOLEAN, logOk \in BOOLEAN :
          svc' = ServiceForUser(last.result, buildOk, logOk)
    /\ UNCHANGED <<files, now, pending, last, selfCreds, rest>>

(* newsletter_ai/tools/gmail: self.token_path, given to __init__ *)
SelfTokenPath == "tokens/alice_at_example.com.json"

(* newsletter_ai/tools/gmail: GmailAuthenticator.authenticate; the           *)
(* credential variable is self.creds, which outlives the call                *)
Authenticate(scopes) ==
    /\ pending = NoCall
    /\ AuthBody(NewCall("authenticate", "", scopes, SelfTokenPath),
                selfCreds, TRUE)
    /\ svc' = NoService
    /\ UNCHANGED <<now, rest>>

(* newsletter_ai/tools/gmail: GmailAuthenticator.get_service *)
GetService ==
    /\ pending = NoCall
    /\ IF ~selfCreds.some
       THEN svc' = [op |-> "get_service", creds |-> selfCreds,
                    credsValid |-> FALSE,
                    outcome |-> "AuthenticationError", cause |-> "no_creds",
                    authOutcome |-> last.outcome]
       ELSE \E buildOk \in BOOLEAN, logOk \in BOOLEAN, errLogOk \in BOOLEAN :
               svc' = [op |-> "get_service", creds |-> selfCreds,
                       credsValid |-> Valid(selfCreds, now),
                       outcome |-> IF buildOk /\ logOk THEN "returned"
                                   ELSE IF errLogOk THEN "AuthenticationError"
                                   ELSE "OSError",
                       cause |-> IF ~buildOk THEN "build"
                                 ELSE IF ~logOk THEN "log" ELSE "none",
                       authOutcome |-> last.outcome]
    /\ UNCHANGED <<files, now, pending, last, selfCreds, rest>>

(* time passes *)
Tick ==
    /\ now < MaxTime
    /\ now' = now + 1
    /\ UNCHANGED <<files, pending, last, selfCreds, svc, rest>>

Next ==
    \/ \E user \in Users, scopes \in ScopeSets :
          AuthenticateUser(user, scopes)
    \/ ConsentReturns
    \/ GetServiceForUser
    \/ Tick

Spec == Init /\ [][Next]_vars

(* The clock goes on while a call is blocked: flow.run_local_server(port=0)  *)
(* is called without timeout_seconds, and nothing obliges the browser user   *)
(* to answer.                                                                *)
SpecFair == Spec /\ WF_vars(Tick)

(* The single-token authenticator: one instance, one token path *)
InitSingle ==
    /\ files \in { f \in [Paths -> InitFiles] :
                      \A p \in Paths \ {SelfTokenPath} : f[p] = Absent }
    /\ now = 0
    /\ pending = NoCall
    /\ last = NoCall
    /\ selfCreds = NoCreds
    /\ svc = NoService
    /\ RestInit

NextSingle ==
    \/ \E scopes \in ScopeSets : Authenticate(scopes)
    \/ ConsentReturns
    \/ GetService
    \/ Tick

SpecSingle == InitSingle /\ [][NextSingle]_vars

---------------------------------------------------------------------------
(* app/main.py, run_user_session: the token path of a user.  A string is a   *)
(* sequence of characters; main() takes any non-empty line as user_email.    *)

MaxEmailLen == 4      \* the longest user_email typed in

Characters == {"@", "_", "a", "t"}

RECURSIVE StringsOfLength(_)
StringsOfLength(n) ==
    IF n = 0 THEN {<<>>}
    ELSE { <<c>> \o s : c \in Characters, s \in StringsOfLength(n - 1) }

(* user_email = input(...).strip(); if not user_email: raise ValueError *)
UserEmails == UNION { StringsOfLength(n) : n \in 1..MaxEmailLen }

(* user_email.replace('@', '_at_') *)
RECURSIVE Replace(_)
Replace(s) ==
    IF s = <<>> THEN <<>>
    ELSE (IF Head(s) = "@" THEN <<"_", "a", "t", "_">> ELSE <<Head(s)>>)
         \o Replace(Tail(s))

(* os.path.join(token_dir, f"{user_email.replace('@','_at_')}.json") *)
UserTokenPath(user_email) ==
    <<"tokens/">> \o Replace(user_email) \o <<".json">>

(* no authenticator call has been made *)
Quiet ==
    /\ files = [p \in Paths |-> Absent]
    /\ now = 0
    /\ pending = NoCall
    /\ last = NoCall
    /\ selfCreds = NoCreds
    /\ svc = NoService

(* run_user_session derives the token path of the user typed in *)
DeriveTokenPath(user_email) ==
    /\ userToken' = [email |-> user_email, path |-> UserTokenPath(user_email)]
    /\ UNCHANGED <<files, now, pending, last, selfCreds, svc,
                   session, client, mailbox, ledger, outbox, run>>

InitPath == Quiet /\ RestInit

NextPath == \E user_email \in UserEmails : DeriveTokenPath(user_email)

SpecPath == InitPath /\ [][NextPath]_vars

---------------------------------------------------------------------------
(* tools/gmail/gmail_client.py: GmailClient over its sub-clients UsersClient *)
(* and MessagesClient.  api is how the request to the provider ends: "ok",   *)
(* "HttpError", or "Exception" for any other error; subLogOk and logOk tell  *)
(* whether the sub-client's and the client's log files can be written.       *)

ApiResults == {"ok", "HttpError", "Exception"}
UserIds == {"me", "alice@example.com"}
MaxResultsArgs == 1..2

(* except Exception as e: self.logger.error(...); raise <wrapper> from e *)
LogAndRaise(wrapper, logOk) == IF logOk THEN wrapper ELSE "OSError"

(* UsersClient.get_profile *)
UsersGetProfile(api, subLogOk) ==
    IF api = "ok" THEN "returned"
    ELSE LogAndRaise("UsersClientError", subLogOk)

(* MessagesClient.list_messages: an HttpError is logged and raised again *)
MessagesListMessages(api, subLogOk) ==
    CASE api = "ok" -> "returned"
      [] api = "HttpError" -> LogAndRaise("HttpError", subLogOk)
      [] OTHER -> LogAndRaise("MessagesClientError", subLogOk)

(* MessagesClient.get_message *)
MessagesGetMessage(api, subLogOk) ==
    IF api = "ok" THEN "returned"
    ELSE LogAndRaise("MessagesClientError", subLogOk)

(* GmailClient.get_profile: except GmailClientError *)
ClientGetProfile(api, subLogOk, logOk) ==
    LET sub == UsersGetProfile(api, subLogOk) IN
    IF sub = "GmailClientError" THEN LogAndRaise("GmailClientError", logOk)
    ELSE sub

(* GmailClient.list_messages: except HttpError; except Exception *)
ClientListMessages(api, subLogOk, logOk) ==
    LET sub == MessagesListMessages(api, subLogOk) IN
    IF sub = "returned" THEN "returned"
    ELSE LogAndRaise("GmailClientError", logOk)

(* GmailClient.get_message: except Exception *)
ClientGetMessage(api, subLogOk, logOk) ==
    LET sub == MessagesGetMessage(api, subLogOk) IN
    IF sub = "returned" THEN "returned"
    ELSE LogAndRaise("GmailClientError", logOk)

(* gmail_client.get_profile(user_id) *)
GetProfile(user_id) ==
    /\ \E api \in ApiResults, subLogOk \in BOOLEAN, logOk \in BOOLEAN :
          client' = [op |-> "get_profile", user_id |-> user_id, arg |-> "",
                     api |-> api,
                     outcome |-> ClientGetProfile(api, subLogOk, logOk),
                     cause |-> IF api = "ok" THEN "none"
                               ELSE UsersGetProfile(api, subLogOk),
                     result |-> {}]
    /\ UNCHANGED <<files, now, pending, last, selfCreds, svc,
                   session, userToken, mailbox, ledger, outbox, run>>

(* gmail_client.list_messages(user_id, max_results): at most max_results of  *)
(* the messages the provider holds; results.get("messages", [])              *)
ListMessages(user_id, max_results) ==
    /\ \E api \in ApiResults, subLogOk \in BOOLEAN, logOk \in BOOLEAN,
          listed \in SUBSET mailbox :
          /\ Cardinality(listed) <= max_results
          /\ Cardinality(listed) = max_results \/ listed = mailbox
          /\ api # "ok" => listed = {}
          /\ client' = [op |-> "list_messages", user_id |-> user_id,
                        arg |-> ToString(max_results), api |-> api,
                        outcome |-> ClientListMessages(api, subLogOk, logOk),
                        cause |-> IF api = "ok" THEN "none"
                                  ELSE MessagesListMessages(api, subLogOk),
                        result |-> listed]
    /\ UNCHANGED <<files, now, pending, last, selfCreds, svc,
                   session, userToken, mailbox, ledger, outbox, run>>

(* gmail_client.get_message(message_id, user_id): the provider answers 404   *)
(* (an HttpError) for a message it does not hold                             *)
GetMessage(message_id, user_id) ==
    /\ \E api \in ApiResults, subLogOk \in BOOLEAN, logOk \in BOOLEAN :
          /\ message_id \notin mailbox => api = "HttpError"
          /\ client' = [op |-> "get_message", user_id |-> user_id,
                        arg |-> message_id, api |-> api,
                        outcome |-> ClientGetMessage(api, subLogOk, logOk),
                        cause |-> IF api = "ok" THEN "none"
                                  ELSE MessagesGetMessage(api, subLogOk),
                        result |-> IF api = "ok" THEN {message_id} ELSE {}]
    /\ UNCHANGED <<files, now, pending, last, selfCreds, svc,
                   session, userToken, mailbox, ledger, outbox, run>>

(* a message arrives at the provider *)
Deliver(m) ==
    /\ m \notin mailbox
    /\ mailbox' = mailbox \cup {m}
    /\ UNCHANGED <<files, now, pending, last, selfCreds, svc,
                   session, client, userToken, ledger, outbox, run>>

InitClient == Quiet /\ RestInit

NextClient ==
    \/ \E user_id \in UserIds : GetProfile(user_id)
    \/ \E user_id \in UserIds, max_results \in MaxResultsArgs :
          ListMessages(user_id, max_results)
    \/ \E message_id \in Messages, user_id \in UserIds :
          GetMessage(message_id, user_id)
    \/ \E m \in Messages : Deliver(m)

SpecClient == InitClient /\ [][NextClient]_vars

---------------------------------------------------------------------------
(* app/main.py: main() and run_user_session *)

MaxSessions == 2      \* how many times main() is run

(* main(): except Exception as e: logger.error(error_message); print(...)    *)
(* AppLogger.log re-raises when main.log cannot be written: the exception    *)
(* then leaves main().  The ways the handler can end:                        *)
MainExcept(sess) ==
    { IF mainLogOk
      THEN [sess EXCEPT !.pc = "done", !.mainLogged = TRUE,
                        !.mainPrinted = TRUE]
      ELSE [sess EXCEPT !.pc = "done", !.escaped = "OSError"] :
      mainLogOk \in BOOLEAN }

(* run_user_session: except Exception as e: logger.error(error_message);     *)
(* print(error_message).  When the log cannot be written the logger's error  *)
(* leaves run_user_session and reaches the except block of main().           *)
SessionExcept(sess, stage, raised) ==
    LET s1 == [sess EXCEPT !.stage = stage, !.raised = raised] IN
    { [s1 EXCEPT !.pc = "done", !.sessionLogged = TRUE,
                 !.sessionPrinted = TRUE, !.sessionReturned = TRUE] }
    \cup MainExcept(s1)

(* main() up to the end of authenticate_user, or to the point where that     *)
(* call blocks: the logger, the environment, the prompt, then                *)
(* run_user_session: the authenticator, the token directory, the call        *)
SessionStart(user_email, scopes) ==
    /\ session.pc \in {"idle", "done"}
    /\ session.runs < MaxSessions
    /\ pending = NoCall
    /\ LET fresh == [NoSession EXCEPT !.user = user_email,
                                      !.runs = session.runs + 1]
       IN
       \E reached \in {"logger", "env", "input", "setup", "call"} :
          CASE reached = "logger" ->
                 /\ session' = [fresh EXCEPT !.pc = "done", !.stage = "logger",
                                             !.user = "",
                                             !.raised = "OSError",
                                             !.escaped = "OSError"]
                 /\ UNCHANGED <<files, pending, last, selfCreds>>
            [] reached = "env" ->
                 /\ session' \in MainExcept([fresh EXCEPT !.stage = "env",
                                            !.user = "",
                                            !.raised = "FileNotFoundError"])
                 /\ UNCHANGED <<files, pending, last, selfCreds>>
            [] reached = "input" ->
                 /\ user_email = ""
                 /\ session' \in MainExcept([fresh EXCEPT !.stage = "input",
                                            !.raised = "ValueError"])
                 /\ UNCHANGED <<files, pending, last, selfCreds>>
            [] reached = "setup" ->
                 /\ user_email # ""
                 /\ session' \in SessionExcept(fresh, "setup", "OSError")
                 /\ UNCHANGED <<files, pending, last, selfCreds>>
            [] reached = "call" ->
                 /\ user_email # ""
                 /\ AuthBody(NewCall("authenticate_user", user_email, scopes,
                                     TokenPath(user_email)), NoCreds, FALSE)
                 /\ session' = [fresh EXCEPT !.pc = "authenticating"]
    /\ svc' = NoService
    /\ client' = NoOperation
    /\ UNCHANGED <<now, userToken, mailbox, ledger, outbox, run>>

(* run_user_session from the end of authenticate_user on, and main() to its  *)
(* end: get_service_for_user, GmailClient(...), get_profile, logger.info     *)
SessionContinue ==
    /\ session.pc = "authenticating"
    /\ pending = NoCall
    /\ IF last.outcome # "returned"
       THEN /\ session' \in SessionExcept(session, "authenticate_user",
                                          last.outcome)
            /\ UNCHANGED <<svc, client>>
       ELSE \E buildOk \in BOOLEAN, svcLogOk \in BOOLEAN :
               LET service == ServiceForUser(last.result, buildOk, svcLogOk) IN
               /\ svc' = service
               /\ IF service.outcome # "returned"
                  THEN /\ session' \in SessionExcept(session,
                                           "get_service_for_user",
                                           service.outcome)
                       /\ UNCHANGED client
                  ELSE \/ /\ session' \in SessionExcept(session, "client",
                                                        "OSError")
                          /\ UNCHANGED client
                       \/ \E api \in ApiResults, subLogOk \in BOOLEAN :
                             LET profile ==
                                   ClientGetProfile(api, subLogOk, TRUE)
                             IN
                             /\ client' =
                                   [op |-> "get_profile", user_id |-> "me",
                                    arg |-> "", api |-> api,
                                    outcome |-> profile,
                                    cause |-> IF api = "ok" THEN "none"
                                              ELSE profile,
                                    result |-> {}]
                             /\ IF profile # "returned"
                                THEN session' \in
                                       SessionExcept(session, "get_profile",
                                                     profile)
                                ELSE session' \in
                                       { [session EXCEPT
                                             !.pc = "done",
                                             !.sessionReturned = TRUE] }
                                       \cup SessionExcept(session, "log",
                                                          "OSError")
    /\ UNCHANGED <<files, now, pending, last, selfCreds,
                   userToken, mailbox, ledger, outbox, run>>

NextSession ==
    \/ \E user_email \in Users \cup {""}, scopes \in ScopeSets :
          SessionStart(user_email, scopes)
    \/ ConsentReturns
    \/ SessionContinue
    \/ Tick

(* main() starts with no token file for the second user, and for the first  *)
(* with none, an unparseable one, a valid or an expired one                  *)
InitSession ==
    /\ files \in { f \in [Paths -> InitFilesOther \cup {Corrupt}] :
                      f[TokenPath("bob@example.com")] = Absent }
    /\ now = 0
    /\ pending = NoCall
    /\ last = NoCall
    /\ selfCreds = NoCreds
    /\ svc = NoService
    /\ RestInit

SpecSession == InitSession /\ [][NextSession]_vars

---------------------------------------------------------------------------
(* newsletter_ai/main.py: the content pipeline, and bd/db.py: the ledger *)

MaxRuns == 2          \* how many times the pipeline is run

(* a newsletter arrives at the provider *)
Arrive(m) ==
    /\ run.pc = "idle"
    /\ m \notin mailbox
    /\ mailbox' = mailbox \cup {m}
    /\ UNCHANGED <<files, now, pending, last, selfCreds, svc,
                   session, client, userToken, ledger, outbox, run>>

(* email_client.fetch_emails(sender_email): the sender's messages that the   *)
(* provider holds, in some order                                             *)
FetchEmails ==
    { emails \in UNION { [1..n -> mailbox] : n \in 0..Cardinality(mailbox) } :
         /\ Len(emails) = Cardinality(mailbox)
         /\ \A i, j \in 1..Len(emails) : i # j => emails[i] # emails[j] }

(* db.mark_email_processed: INSERT OR IGNORE INTO processed_emails, the      *)
(* email_id being the primary key                                            *)
MarkEmailProcessed(table, email_id) == table \cup {email_id}

(* main(): db.init_db(); emails = email_client.fetch_emails(sender_email) *)
PipelineStart ==
    /\ run.pc = "idle"
    /\ run.runs < MaxRuns
    /\ \E ok \in BOOLEAN :
          IF ~ok
          THEN run' = [run EXCEPT !.runs = @ + 1]
          ELSE \E emails \in FetchEmails :
                  run' = [pc |-> "loop", emails |-> emails,
                          runs |-> run.runs + 1]
    /\ UNCHANGED <<files, now, pending, last, selfCreds, svc,
                   session, client, userToken, mailbox, ledger, outbox>>

(* one turn of "for email in emails": classify; summarize, translate, make   *)
(* the image, format; send; mark as processed.  An exception of a stage      *)
(* leaves main().                                                            *)
ProcessEmail ==
    /\ run.pc = "loop"
    /\ run.emails # <<>>
    /\ LET email_id == Head(run.emails)
           next == [run EXCEPT !.emails = Tail(@)]
           stop == [run EXCEPT !.pc = "idle", !.emails = <<>>]
       IN  \E is_newsletter \in BOOLEAN,
              fails \in {"none", "stage", "send", "mark"} :
              IF ~is_newsletter
              THEN /\ run' = next
                   /\ UNCHANGED <<ledger, outbox>>
              ELSE CASE fails = "stage" ->
                          /\ run' = stop
                          /\ UNCHANGED <<ledger, outbox>>
                     [] fails = "send" ->
                          /\ run' = stop
                          /\ UNCHANGED <<ledger, outbox>>
                     [] fails = "mark" ->
                          /\ run' = stop
                          /\ outbox' = [outbox EXCEPT ![email_id] = @ + 1]
                          /\ UNCHANGED ledger
                     [] fails = "none" ->
                          /\ run' = next
                          /\ outbox' = [outbox EXCEPT ![email_id] = @ + 1]
                          /\ ledger' = MarkEmailProcessed(ledger, email_id)
    /\ UNCHANGED <<files, now, pending, last, selfCreds, svc,
                   session, client, userToken, mailbox>>

(* the loop is over: main() returns *)
PipelineEnd ==
    /\ run.pc = "loop"
    /\ run.emails = <<>>
    /\ run' = [run EXCEPT !.pc = "idle"]
    /\ UNCHANGED <<files, now, pending, last, selfCreds, svc,
                   session, client, userToken, mailbox, ledger, outbox>>

InitPipeline == Quiet /\ RestInit

NextPipeline ==
    \/ \E m \in Messages : Arrive(m)
    \/ PipelineStart
    \/ ProcessEmail
    \/ PipelineEnd

SpecPipeline == InitPipeline /\ [][NextPipeline]_vars

---------------------------------------------------------------------------
(* The vocabulary of the properties *)

(* the stored record, as a call found it *)
StoredReadable(call) == Exists(call.pre) /\ ~LoadRaises(call.pre)
StoredRecord(call) == Load(call.pre, call.scopes, call.at)
StoredValid(call) == StoredReadable(call) /\ Valid(StoredRecord(call), call.at)
StoredExpired(call) == StoredReadable(call) /\ Expired(StoredRecord(call), call.at)
StoredRefreshToken(call) == StoredRecord(call).refresh_token # None

SameTokenData(c, d) ==
    /\ c.token = d.token
    /\ c.refresh_token = d.refresh_token
    /\ c.expiry = d.expiry

(* file f holds credential c *)
Holds(f, c) ==
    /\ f.kind = "json"
    /\ f.token = c.token
    /\ f.expiry = c.expiry
    /\ f.scopes = c.scopes
    /\ \/ f.refresh_token = c.refresh_token
       \/ c.refresh_token = None /\ f.refresh_token = Missing

(* this step ends a call of authenticate_user / authenticate *)
CallEnds ==
    /\ pending' = NoCall
    /\ pending # NoCall \/ last' # last \/ files' # files

PerUser(call) == call.kind = "authenticate_user"

---------------------------------------------------------------------------
---------------------------------------------------------------------------
(* a call that found an expired stored record with a refresh token, and      *)
(* returned                                                                  *)
RefreshedAndReturned(call) ==
    /\ PerUser(call)
    /\ StoredExpired(call)
    /\ StoredRefreshToken(call)
    /\ call.outcome = "returned"

(* C2 as stated: a successful call on an expired stored record with a        *)
(* refresh token invokes refresh exactly once, consent never, and persists   *)
(* at the token path an updated record with the same refresh token as before *)
(* and a later expiry.                                                       *)
C2_RefreshKeepsRefreshToken ==
    RefreshedAndReturned(last) =>
        /\ last.refreshCalls = 1
        /\ last.consentCalls = 0
        /\ last.writes = 1
        /\ Holds(files[last.path], last.result)
        /\ files[last.path].refresh_token = last.pre.refresh_token
        /\ files[last.path].expiry > last.pre.expiry

(* C2, amended: ... an updated record with a later expiry and with the same  *)
(* refresh token as before, unless the provider's answer carries a new       *)
(* refresh token, which is then the one persisted.                           *)
C2_RefreshPersists ==
    RefreshedAndReturned(last) =>
        /\ last.refreshCalls = 1
        /\ last.consentCalls = 0
        /\ last.writes = 1
        /\ Holds(files[last.path], last.result)
        /\ files[last.path].refresh_token =
              IF last.issuedRt = None THEN last.pre.refresh_token
              ELSE last.issuedRt
        /\ files[last.path].expiry > last.pre.expiry

C2_Witness ==
    /\ RefreshedAndReturned(last)
    /\ last.issuedRt = None
    /\ files[last.path].refresh_token = "rt1"
    /\ files[last.path].token = "at2"

---------------------------------------------------------------------------
(* C3: a call that finds no file at the token path starts the interactive    *)
(* consent flow exactly once and never invokes refresh; when it returns, the *)
(* new record has been written to the given token path, and no other token   *)
(* file has changed.                                                         *)
C3_NoFileMeansConsent ==
    [][ (CallEnds /\ PerUser(last') /\ ~Exists(last'.pre)) =>
           /\ last'.consentCalls = 1
           /\ last'.refreshCalls = 0
           /\ \A q \in Paths \ {last'.path} : files'[q] = files[q]
           /\ last'.outcome = "returned" =>
                 /\ last'.branch = "consent"
                 /\ last'.writes = 1
                 /\ Holds(files'[last'.path], last'.result) ]_vars

C3_Witness ==
    /\ PerUser(last)
    /\ ~Exists(last.pre)
    /\ last.outcome = "returned"
    /\ last.consentCalls = 1
    /\ Holds(files[last.path], last.result)

---------------------------------------------------------------------------
---------------------------------------------------------------------------
(* C5: when a call for one user is followed by a call for another user with  *)
(* a different token path, the second call, however it ends, leaves the file *)
(* at the first user's token path as it was.                                 *)
C5_Isolation ==
    [][ /\ ( /\ CallEnds
             /\ PerUser(last) /\ PerUser(last')
             /\ last'.path # last.path ) =>
              files'[last.path] = files[last.path]
        /\ (pending = NoCall /\ PerUser(pending')) => files' = files ]_vars

C5_Witness ==
    /\ PerUser(last)
    /\ last.user = "bob@example.com"
    /\ last.writes = 1
    /\ last.outcome = "returned"
    /\ files[TokenPath("alice@example.com")].token = "at2"
    /\ files[TokenPath("alice@example.com")] # files[last.path]

---------------------------------------------------------------------------
(* C6: when the provider rejects the refresh of an expired stored record,    *)
(* the call raises AuthenticationError with the refresh error as its cause,  *)
(* no other exception leaves it, and the token file is what it was before    *)
(* the call.                                                                 *)
C6_RefreshRejectedRaisesAuthenticationError ==
    (PerUser(last) /\ last.refreshFailed) =>
        /\ last.outcome = "AuthenticationError"
        /\ last.cause = "refresh"
        /\ files[last.path] = last.pre

---------------------------------------------------------------------------
(* C7 as stated: a call whose refresh attempt failed goes on to the          *)
(* interactive consent flow.                                                 *)
C7_RefreshErrorFallsThrough ==
    (PerUser(last) /\ last.refreshFailed) => last.consentCalls = 1

(* C7, amended: a call whose refresh attempt failed does not go on to the    *)
(* interactive consent flow: consent is not started, nothing is written, no  *)
(* credential is returned, and the call ends with an exception whose root    *)
(* cause is the refresh error.                                               *)
C7_RefreshErrorEndsCall ==
    /\ (PerUser(last) /\ last.refreshFailed) =>
          /\ last.consentCalls = 0
          /\ last.writes = 0
          /\ files[last.path] = last.pre
          /\ last.outcome \in {"AuthenticationError", "OSError"}
          /\ last.cause = "refresh"
          /\ last.result = NoCreds
    /\ ~pending.refreshFailed

C7_Witness ==
    /\ PerUser(last)
    /\ last.refreshFailed
    /\ last.outcome = "AuthenticationError"
    /\ last.pre.refresh_token = "rt1"

---------------------------------------------------------------------------
(* C8: every call ends in one of two ways: it returns a credential that is   *)
(* present, carries an access token and is not expired, or it raises         *)
(* AuthenticationError with the root cause retained; no exception of another *)
(* type leaves it.                                                           *)
C8_ReturnsOrAuthenticationError ==
    PerUser(last) =>
        \/ /\ last.outcome = "returned"
           /\ last.result.some
           /\ Valid(last.result, last.at)
        \/ /\ last.outcome = "AuthenticationError"
           /\ last.cause # "none"

---------------------------------------------------------------------------
(* C9: a stored record is used only if its granted scopes cover the scopes   *)
(* asked for in the call; otherwise it is treated as absent: the call, once  *)
(* it has loaded the record, neither returns it nor refreshes it, and starts *)
(* the consent flow.                                                         *)
C9_StoredScopesCoverRequested ==
    (PerUser(last) /\ StoredReadable(last)
       /\ ~(last.scopes \subseteq last.pre.scopes)) =>
        /\ last.branch \notin {"cached", "refresh"}
        /\ last.branch # "none" => last.consentCalls = 1

---------------------------------------------------------------------------
(* C10: get_service hands out no service (it raises AuthenticationError)     *)
(* whenever authenticate has not completed successfully on the instance      *)
(* (never called, or the last call failed) or the credential the instance    *)
(* holds is not valid.                                                       *)
C10_ServiceNeedsValidCredential ==
    (svc.op = "get_service"
       /\ (svc.authOutcome # "returned" \/ ~svc.credsValid)) =>
        svc.outcome # "returned"

---------------------------------------------------------------------------
(* C11: the save is a whole-file overwrite with nothing partial to be seen:  *)
(* after a call, however it ended (the write failing or being cut short      *)
(* included), the token file holds the complete record it held before the    *)
(* call or a complete new record, never an empty or truncated one.           *)
C11_PersistIsAtomic ==
    PerUser(last) =>
        \/ files[last.path] = last.pre
        \/ /\ last.writes = 1
           /\ files[last.path].kind = "json"
           /\ files[last.path].token \in NewAccessTokens

---------------------------------------------------------------------------
(* C12: every call terminates: a call blocked in the consent step is         *)
(* eventually over (the step times out and the call raises), whether or not  *)
(* the browser user ever answers.                                            *)
C12_AuthenticateTerminates ==
    (pending.outcome = "blocked") ~> (pending = NoCall)

---------------------------------------------------------------------------
(* C17: when building the service fails inside get_service_for_user, the     *)
(* exception that reaches the caller is AuthenticationError (with the build  *)
(* error as its cause); no exception of another type leaves the error        *)
(* handling, which logs through AppLogger.error before raising.              *)
C17_BuildFailureRaisesAuthenticationError ==
    (svc.op = "get_service_for_user" /\ svc.cause = "build") =>
        svc.outcome = "AuthenticationError"

---------------------------------------------------------------------------
(* a call that found a stored record without refresh token (the entry null   *)
(* or left out, as to_json writes it) that is expired                        *)
StoredExpiredWithoutRefreshToken(call) ==
    /\ PerUser(call)
    /\ call.pre.kind = "json"
    /\ call.pre.refresh_token \in {None, Missing}
    /\ Expired(Load(call.pre, call.scopes, call.at), call.at)

(* C16: a stored record that is expired and has no refresh token is never    *)
(* renewed silently: the call never invokes refresh, starts the interactive  *)
(* consent flow exactly once (unless it ended before on a log entry that     *)
(* could not be written) and, when it returns, has overwritten the stored    *)
(* record with the newly issued one.                                         *)
C16_ExpiredWithoutRefreshTokenGoesToConsent ==
    /\ StoredExpiredWithoutRefreshToken(last) =>
          /\ last.refreshCalls = 0
          /\ last.cause # "log" => last.consentCalls = 1
          /\ last.outcome = "returned" =>
                /\ last.writes = 1
                /\ Holds(files[last.path], last.result)
    /\ StoredExpiredWithoutRefreshToken(pending) =>
          /\ pending.refreshCalls = 0
          /\ pending.consentCalls = 1

---------------------------------------------------------------------------
(* C18: when a file exists at the token path and its content cannot be       *)
(* parsed, the call raises AuthenticationError without starting the consent  *)
(* flow and without writing; the file is left as it was (so a later call     *)
(* with the same path finds the same content and ends the same way).         *)
C18_UnparseableFileRaisesAuthenticationError ==
    (PerUser(last) /\ last.pre.kind = "corrupt") =>
        /\ last.outcome = "AuthenticationError"
        /\ last.cause = "load"
        /\ last.consentCalls = 0
        /\ last.refreshCalls = 0
        /\ last.writes = 0
        /\ files[last.path] = last.pre

---------------------------------------------------------------------------
(* file f and credential c carry the same access token and refresh token *)
SameTokens(f, c) ==
    /\ f.kind = "json"
    /\ f.token = c.token
    /\ \/ f.refresh_token = c.refresh_token
       \/ c.refresh_token = None /\ f.refresh_token = Missing

(* C20 as stated: after a call that returned, whichever branch it took, a    *)
(* token file exists at the token path and the record it holds has the same  *)
(* access token, refresh token and expiry as the credential returned.        *)
C20_FileHoldsReturnedCredential ==
    (PerUser(last) /\ last.outcome = "returned") =>
        /\ Exists(files[last.path])
        /\ SameTokens(files[last.path], last.result)
        /\ files[last.path].expiry = last.result.expiry

(* C20, amended: ... the same access token and refresh token as the          *)
(* credential returned, and an expiry within the same second (a credential   *)
(* loaded from the file has the stored expiry cut to the whole second).      *)
C20_FileHoldsReturnedCredentialToTheSecond ==
    (PerUser(last) /\ last.outcome = "returned") =>
        /\ Exists(files[last.path])
        /\ SameTokens(files[last.path], last.result)
        /\ ParseExpiry(files[last.path].expiry) = ParseExpiry(last.result.expiry)

C20_Witness ==
    /\ PerUser(last)
    /\ last.outcome = "returned"
    /\ last.branch = "cached"
    /\ files[last.path].token = last.result.token
    /\ files[last.path].expiry = last.result.expiry + 1

---------------------------------------------------------------------------
(* C14: the token path is one per user and a function of the user identity   *)
(* alone: the path derived for a user is token_dir/<identity with '@'        *)
(* replaced by '_at_'>.json, and no different identity yields the same path. *)
C14_OnePathPerUser ==
    userToken.email # <<>> =>
        /\ userToken.path = UserTokenPath(userToken.email)
        /\ \A other \in UserEmails :
              other # userToken.email => UserTokenPath(other) # userToken.path

---------------------------------------------------------------------------
(* C15: the pipeline consults the ledger: a message whose id is recorded as  *)
(* processed is not sent again and not recorded again, so that a recorded    *)
(* message id never leads to a second digest.                                *)
C15_ProcessedMessageNotSentAgain ==
    [][ \A m \in Messages :
           m \in ledger => outbox'[m] = outbox[m] ]_vars

---------------------------------------------------------------------------
(* C19: every GmailClient operation that fails (get_profile, list_messages,  *)
(* get_message) reaches the caller as GmailClientError; no UsersClientError, *)
(* MessagesClientError, HttpError or other exception of a sub-client leaves  *)
(* GmailClient unwrapped.                                                    *)
C19_FailuresSurfaceAsGmailClientError ==
    (client.op # "none" /\ client.outcome # "returned") =>
        client.outcome = "GmailClientError"

---------------------------------------------------------------------------
(* C13: the session driver contains every authentication failure: when       *)
(* authenticate_user or the creation of the service raises inside            *)
(* run_user_session, the error is logged and printed, run_user_session       *)
(* returns normally, and main() ends with no exception reaching the top      *)
(* level.                                                                    *)
C13_SessionContainsAuthenticationFailure ==
    (session.pc = "done"
       /\ session.stage \in {"authenticate_user", "get_service_for_user"}) =>
        /\ session.sessionLogged
        /\ session.sessionPrinted
        /\ session.sessionReturned
        /\ session.escaped = "none"

---------------------------------------------------------------------------
(* C21: in the single-token authenticator the outcome of authenticate rests  *)
(* on the token file and the provider alone, not on earlier calls on the     *)
(* instance: a credential it returns was loaded from the token file during   *)
(* the call or written to the token file during the call; a call made while  *)
(* no token file exists runs the consent flow and saves.                     *)
C21_ReturnedCredentialLoadedOrWritten ==
    (last.kind = "authenticate" /\ last.outcome = "returned") =>
        /\ \/ /\ StoredReadable(last)
              /\ SameTokenData(last.result, StoredRecord(last))
           \/ /\ last.writes = 1
              /\ Holds(files[last.path], last.result)
        /\ ~Exists(last.pre) =>
              /\ last.consentCalls = 1
              /\ last.writes = 1

====
